---- MODULE Spec2Model ----
(***************************************************************************)
(* shell322: a line-oriented command interpreter (plain command,           *)
(* background command, two-command pipe, two-command logical AND).         *)
(*                                                                         *)
(* The model follows the shell process statement by statement at the       *)
(* granularity of its system calls, and every child process it forks from  *)
(* the fork to the exec (or the exit after a failed exec), then as the     *)
(* program image until it terminates and is reaped.                        *)
(*                                                                         *)
(* Environment: fork(2) and execvp(3) may fail; a program that was         *)
(* exec'ed may terminate with any status or run for ever; pipe(2)          *)
(* succeeds and returns two fresh descriptors different from 0, 1 and 2    *)
(* (the shell is started with its three standard streams open).            *)
(*                                                                         *)
(* Three specifications share the module.  Spec is the process model of    *)
(* the shell and its children.  HistorySpec runs add_to_history and        *)
(* show_history on the circular history buffer, and ParseSpec runs the     *)
(* loop of parse_input on one line: the buffer and the tokenizer do not    *)
(* interact with the processes, so Spec leaves them in their initial       *)
(* state.  strdup is taken to succeed.                                     *)
(***************************************************************************)
EXTENDS Integers, Sequences, FiniteSets, TLC

VARIABLES
    pc,          \* where the shell process is in main / its callees
    nread,       \* number of fgets calls that returned a line
    line,        \* main: char line[MAX_LINE] (the C string in it)
    left,        \* handle_and / handle_pipe: char *left
    right,       \* handle_and / handle_pipe: char *right
    args,        \* char *args[MAX_ARGS] of the shell (tokens before the NULL)
    background,  \* execute_command: int background
    pid,         \* execute_command / handle_and: pid_t pid
    pid1,        \* handle_pipe: pid_t pid1
    pid2,        \* handle_pipe: pid_t pid2
    status,      \* handle_and: int status
    shFds,       \* pipe descriptors open in the shell process
    procs,       \* every process forked so far, indexed by process id
    cwd,         \* working directory of the shell process
    envPWD,      \* value of the PWD environment variable of the shell
    trace,       \* system calls and reports of the shell for the current line
    lineRead,    \* main: the line as the last fgets stored it
    history,     \* char *history[HISTORY_COUNT]
    history_index,  \* int history_index
    added,       \* every line add_to_history was called with, in order
    shown,       \* what the last show_history printed, and after how many adds
    pi           \* the frame of one call of parse_input

vars == <<pc, nread, line, left, right, args, background, pid, pid1, pid2,
          status, shFds, procs, cwd, envPWD, trace, lineRead,
          history, history_index, added, shown, pi>>

\* the history buffer and the tokenizer frame
Aux == <<history, history_index, added, shown, pi>>

-----------------------------------------------------------------------------
(* Bounds of the model *)

\* number of input lines on standard input before end-of-input
MaxReads == 2

\* largest number of words in a line handed to parse_input (ParseSpec)
MaxWords == 11

\* largest number of add_to_history calls (HistorySpec)
MaxAdds == 12

(* Program constants *)
MAX_ARGS == 10

HISTORY_COUNT == 10

-----------------------------------------------------------------------------
(* Input lines.  A line is the sequence of its characters, as fgets stores *)
(* it: the terminating newline included.                                   *)

NL == "\n"

InputLines ==
    { <<NL>>,                                   \* empty line
      <<"x", NL>>,                              \* x
      <<"x", " ", "&", NL>>,                    \* x &
      <<"x", "|", "y", NL>>,                    \* x|y
      <<"x", "&", "&", "y", NL>>,               \* x&&y
      <<"&", "&", "x", NL>>,                    \* &&x
      <<"x", "&", "&", NL>>,                    \* x&&
      <<"|", "x", NL>>,                         \* |x
      <<"x", "|", NL>>,                         \* x|
      <<"&", NL>>,                              \* &
      <<"c", "d", NL>>,                         \* cd
      <<"c", "d", " ", "x", NL>>,               \* cd x
      <<"p", "w", "d", NL>>,                    \* pwd
      <<"e", "x", "i", "t", NL>>,               \* exit
      <<"h", "i", "s", "t", "o", "r", "y", NL>>, \* history
      <<"c", "d", " ", "&", NL>>,               \* cd &
      <<"p", "w", "d", " ", "&", NL>>,          \* pwd &
      <<"e", "x", "i", "t", " ", "&", NL>>,     \* exit &
      <<"h", "i", "s", "t", "o", "r", "y", " ", "&", NL>>,  \* history &
      <<"c", "d", " ", "&", "&", "e", "x", "i", "t", " ", "|", "x",
        "&", "&", "y", NL>>,                    \* cd &&exit |x&&y
      <<"e", "x", "i", "t", " ", "&", "|", "h", "i", "s", "t", "o", "r", "y",
        " ", "|", "z", NL>>                     \* exit &|history |z
    }

-----------------------------------------------------------------------------
(* C string helpers *)

Min(a, b) == IF a < b THEN a ELSE b

\* a search for "&&" that returns the last occurrence
strstrAndAndLast(s) ==
    LET hits == { i \in 1..(Len(s) - 1) : s[i] = "&" /\ s[i + 1] = "&" }
    IN  IF hits = {} THEN 0 ELSE CHOOSE i \in hits : \A j \in hits : i >= j

\* strstr(s, "&&") / strchr(s, c): index of the first occurrence, 0 for NULL
strstrAndAnd(s) ==
    LET hits == { i \in 1..(Len(s) - 1) : s[i] = "&" /\ s[i + 1] = "&" }
    IN  IF hits = {} THEN 0 ELSE CHOOSE i \in hits : \A j \in hits : i <= j

strchr(s, c) ==
    LET hits == { i \in 1..Len(s) : s[i] = c }
    IN  IF hits = {} THEN 0 ELSE CHOOSE i \in hits : \A j \in hits : i <= j

\* the C string that starts at s + k (k characters skipped)
StrFrom(s, k) == SubSeq(s, k + 1, Len(s))

\* the C string s after s[i] = '\0' was written (i is 1-based here)
StrCut(s, i) == SubSeq(s, 1, i - 1)

IsDelim(c) == c \in {" ", "\t", NL}

\* strtok(line, " \t\n") called until it returns NULL: all the tokens of s
RECURSIVE strtokAll(_, _, _)
strtokAll(s, cur, acc) ==
    IF s = <<>>
    THEN IF cur = <<>> THEN acc ELSE Append(acc, cur)
    ELSE IF IsDelim(Head(s))
         THEN strtokAll(Tail(s), <<>>,
                        IF cur = <<>> THEN acc ELSE Append(acc, cur))
         ELSE strtokAll(Tail(s), Append(cur, Head(s)), acc)

\* a loop bound that leaves no slot for the terminating NULL
ArgLimitOffByOne == MAX_ARGS

\* the bound on i in the loop of parse_input
ArgLimit == MAX_ARGS - 1

\* parse_input: the tokens stored in args[0..i-1]; args[i] = NULL
parse_input(s) ==
    LET toks == strtokAll(s, <<>>, <<>>)
    IN  SubSeq(toks, 1, Min(Len(toks), ArgLimit))

\* strcmp(args[0], name) == 0
IsWord(tok, name) == tok = name

CD == <<"c", "d">>
PWD == <<"p", "w", "d">>
EXIT == <<"e", "x", "i", "t">>
HISTORY == <<"h", "i", "s", "t", "o", "r", "y">>

-----------------------------------------------------------------------------
(* Exit statuses, as waitpid reports them *)

StatusValues == {"exit0", "exit1", "signal"}

WIFEXITED(st) == st \in {"exit0", "exit1"}

WEXITSTATUS(st) == IF st = "exit0" THEN 0 ELSE 1

\* EXIT_FAILURE / exit(1)
EXIT_FAILURE == "exit1"

-----------------------------------------------------------------------------
(* The shell's record of what it did for the current line *)

Ev(op, n, m, s) == [op |-> op, n |-> n, m |-> m, s |-> s]

Log(e) == trace' = Append(trace, e)

Log2(e1, e2) == trace' = Append(Append(trace, e1), e2)

-----------------------------------------------------------------------------
(* Processes.  procs[p] is the process with process id p, a child of the  *)
(* shell.  pc is "dup2", "close_a", "close_b" (pipe children before the   *)
(* exec), "exec", "exec_failed" (execvp returned), "running" (the program *)
(* image), "zombie" (terminated, status not collected) or "reaped".       *)

Pids == DOMAIN procs

\* the child fork creates: a copy of the shell, its open descriptors included
NewProc(role, fds, cmd, argv) ==
    [role |-> role,
     pc |-> IF role \in {"pipeL", "pipeR"} THEN "dup2" ELSE "exec",
     fds |-> fds,          \* references to the pipe channel it holds
     cmd |-> cmd,          \* its copy of the raw command string (pipe children)
     argv |-> argv,        \* its copy of args, tokens before the NULL
     st |-> "none",        \* termination status
     reported |-> FALSE,   \* perror was called
     execFailed |-> FALSE, \* execvp returned
     c0 |-> 0,             \* close(pipefd[0]) calls
     c1 |-> 0,             \* close(pipefd[1]) calls
     ebadf |-> FALSE]      \* a close was called on a descriptor not open

\* children of the shell whose status has not been collected
Unreaped == { p \in Pids : procs[p].pc # "reaped" }

Zombies == { p \in Pids : procs[p].pc = "zombie" }

\* a process that still executes (the child before exec, or the program)
Alive(p) == procs[p].pc \notin {"zombie", "reaped"}

\* fork(): a new process id, or -1
ForkResults == {Len(procs) + 1, -1}

\* waitpid called with WNOHANG instead of 0: it never blocks, and returns
\* without a status while the awaited child still runs
WaitOutcomesNoHang(wpid) ==
    LET waited == IF wpid = -1 THEN Zombies ELSE {wpid} \cap Zombies
    IN  IF waited = {}
        THEN { [ret |-> -1, st |-> "none"] }
        ELSE { [ret |-> p, st |-> procs[p].st] : p \in waited }

\* waitpid(wpid, &status, 0) without handlers installed returns when the
\* awaited child has terminated (any child for wpid = -1), or at once
\* with -1 (ECHILD) when there is no such child.  The set of the results
\* it can return now; empty while it blocks.
WaitOutcomes(wpid) ==
    IF wpid = -1
    THEN IF Unreaped = {}
         THEN { [ret |-> -1, st |-> "none"] }
         ELSE { [ret |-> p, st |-> procs[p].st] : p \in Zombies }
    ELSE IF wpid \in Unreaped
         THEN IF wpid \in Zombies
              THEN { [ret |-> wpid, st |-> procs[wpid].st] }
              ELSE {}
         ELSE { [ret |-> -1, st |-> "none"] }

\* the process table after waitpid returned o: the collected process is
\* gone, only its entry (who it was) is kept
Reap(o) ==
    IF o.ret = -1
    THEN procs
    ELSE [procs EXCEPT ![o.ret] =
            [NewProc(@.role, {}, <<>>, <<>>) EXCEPT !.pc = "reaped"]]

\* a close that is left out: the descriptor stays open
CloseFdLeak(fds, fd) == fds

\* close(fd) in a process holding fds
CloseFd(fds, fd) == fds \ {fd}

-----------------------------------------------------------------------------
(* Program start *)

\* a null pointer in an array of strings (no stored string is empty)
NULL == <<>>

\* char *history[HISTORY_COUNT]; int history_index = 0;  (static storage:
\* every slot starts as a null pointer)
HistoryInit ==
    /\ history = [k \in 0..(HISTORY_COUNT - 1) |-> NULL]
    /\ history_index = 0
    /\ added = <<>>
    /\ shown = [at |-> 0, out |-> <<>>]

\* no call of parse_input under way
PiIdle == [pc |-> "idle", line |-> <<>>, rest |-> <<>>, token |-> NULL,
           i |-> 0, args |-> <<>>, written |-> {}, ret |-> -1]

\* the shell process before the first prompt
MainInit ==
    /\ pc = "prompt"
    /\ nread = 0
    /\ line = <<>>
    /\ left = <<>>
    /\ right = <<>>
    /\ args = <<>>
    /\ background = 0
    /\ pid = 0
    /\ pid1 = 0
    /\ pid2 = 0
    /\ status = "none"
    /\ shFds = {}
    /\ procs = <<>>
    /\ cwd = <<"/">>
    /\ envPWD = <<"/">>
    /\ trace = <<>>
    /\ lineRead = <<>>

Init == MainInit /\ HistoryInit /\ pi = PiIdle

-----------------------------------------------------------------------------
(* main *)

\* the automatic variables of main and its callees go out of scope
Locals == <<line, left, right, args, background, pid, pid1, pid2, status>>

ClearLocals ==
    /\ line' = <<>>
    /\ left' = <<>>
    /\ right' = <<>>
    /\ args' = <<>>
    /\ background' = 0
    /\ pid' = 0
    /\ pid1' = 0
    /\ pid2' = 0
    /\ status' = "none"

\* a break where the loop has a continue
Break ==
    /\ pc' = "done"
    /\ ClearLocals

\* back to the top of the while loop of main
Continue ==
    /\ pc' = "prompt"
    /\ ClearLocals

\* fgets returned the line l
Fgets(l) ==
    /\ pc = "prompt"
    /\ nread < MaxReads
    /\ l \in InputLines
    /\ nread' = nread + 1
    /\ lineRead' = l
    /\ UNCHANGED Aux

\* fgets returned NULL: end of input
MainEOF ==
    /\ pc = "prompt"
    /\ pc' = "done"
    /\ ClearLocals
    /\ UNCHANGED <<nread, lineRead, Aux, shFds, procs, cwd, envPWD, trace>>

\* line[0] == '\n'
MainEmptyLine ==
    \E l \in InputLines :
        /\ Fgets(l)
        /\ l[1] = NL
        /\ Continue
        /\ trace' = <<>>
        /\ UNCHANGED <<shFds, procs, cwd, envPWD>>

\* strstr(line, "&&") found: handle_and(line, and_ptr + 2) is entered
MainAnd ==
    \E l \in InputLines :
        /\ Fgets(l)
        /\ l[1] # NL
        /\ strstrAndAnd(l) # 0
        /\ line' = StrCut(l, strstrAndAnd(l))
        /\ left' = StrCut(l, strstrAndAnd(l))
        /\ right' = StrFrom(l, strstrAndAnd(l) + 1)
        /\ pc' = "and_fork"
        /\ trace' = <<>>
        /\ UNCHANGED <<args, background, pid, pid1, pid2, status, shFds,
                       procs, cwd, envPWD>>

\* strchr(line, '|') found: handle_pipe(line, pipe_ptr + 1) is entered
MainPipe ==
    \E l \in InputLines :
        /\ Fgets(l)
        /\ l[1] # NL
        /\ strstrAndAnd(l) = 0
        /\ strchr(l, "|") # 0
        /\ line' = StrCut(l, strchr(l, "|"))
        /\ left' = StrCut(l, strchr(l, "|"))
        /\ right' = StrFrom(l, strchr(l, "|"))
        /\ pc' = "pipe_create"
        /\ trace' = <<>>
        /\ UNCHANGED <<args, background, pid, pid1, pid2, status, shFds,
                       procs, cwd, envPWD>>

\* the background marker never looked for
BgFlagNever(l) == 0

\* the line of main after the '&' test: cut at the first '&' if there is one
BgFlag(l) == IF strchr(l, "&") # 0 THEN 1 ELSE 0

BgCut(l) == IF strchr(l, "&") # 0 THEN StrCut(l, strchr(l, "&")) ELSE l

\* the built-in names looked for before the operators
IsCommandLineAny(l) == l[1] # NL

\* the line is neither an AND nor a pipe line
IsCommandLine(l) ==
    /\ l[1] # NL
    /\ strstrAndAnd(l) = 0
    /\ strchr(l, "|") = 0

\* args[0] == NULL: continue
MainNoCommand ==
    \E l \in InputLines :
        /\ Fgets(l)
        /\ IsCommandLine(l)
        /\ parse_input(BgCut(l)) = <<>>
        /\ Continue
        /\ trace' = <<>>
        /\ UNCHANGED <<shFds, procs, cwd, envPWD>>

HOME == <<"~">>

\* run_builtin_cd: chdir fails (perror), or succeeds; then getcwd succeeds
\* (and PWD is set) or fails
MainCd ==
    \E l \in InputLines, res \in {"fail", "ok", "ok_nocwd"} :
        /\ Fgets(l)
        /\ IsCommandLine(l)
        /\ parse_input(BgCut(l)) # <<>>
        /\ IsWord(parse_input(BgCut(l))[1], CD)
        /\ LET a == parse_input(BgCut(l))
               target == IF Len(a) >= 2 THEN a[2] ELSE HOME
           IN  IF res # "fail"
               THEN /\ cwd' = target
                    /\ envPWD' = IF res = "ok" THEN target ELSE envPWD
                    /\ trace' = <<Ev("chdir", 0, 0, "ok")>>
               ELSE /\ UNCHANGED <<cwd, envPWD>>
                    /\ trace' = <<Ev("chdir", 0, -1, "fail"),
                                  Ev("perror", 0, 0, "cd error")>>
        /\ Continue
        /\ UNCHANGED <<shFds, procs>>

\* run_builtin_pwd
MainPwd ==
    \E l \in InputLines :
        /\ Fgets(l)
        /\ IsCommandLine(l)
        /\ parse_input(BgCut(l)) # <<>>
        /\ IsWord(parse_input(BgCut(l))[1], PWD)
        /\ trace' = <<Ev("print", 0, 0, "cwd")>>
        /\ Continue
        /\ UNCHANGED <<shFds, procs, cwd, envPWD>>

\* exit: break out of the loop
MainExit ==
    \E l \in InputLines :
        /\ Fgets(l)
        /\ IsCommandLine(l)
        /\ parse_input(BgCut(l)) # <<>>
        /\ IsWord(parse_input(BgCut(l))[1], EXIT)
        /\ pc' = "done"
        /\ ClearLocals
        /\ trace' = <<>>
        /\ UNCHANGED <<shFds, procs, cwd, envPWD>>

\* show_history
MainHistory ==
    \E l \in InputLines :
        /\ Fgets(l)
        /\ IsCommandLine(l)
        /\ parse_input(BgCut(l)) # <<>>
        /\ IsWord(parse_input(BgCut(l))[1], HISTORY)
        /\ trace' = <<Ev("print", 0, 0, "history")>>
        /\ Continue
        /\ UNCHANGED <<shFds, procs, cwd, envPWD>>

\* any other first token: execute_command(args, background) is entered
MainExecute ==
    \E l \in InputLines :
        /\ Fgets(l)
        /\ IsCommandLine(l)
        /\ parse_input(BgCut(l)) # <<>>
        /\ ~ \E w \in {CD, PWD, EXIT, HISTORY} :
               IsWord(parse_input(BgCut(l))[1], w)
        /\ line' = BgCut(l)
        /\ args' = parse_input(BgCut(l))
        /\ background' = BgFlag(l)
        /\ pc' = "ec_fork"
        /\ trace' = <<Ev("call", BgFlag(l), 0, "execute_command")>>
        /\ UNCHANGED <<left, right, pid, pid1, pid2, status, shFds, procs,
                       cwd, envPWD>>

-----------------------------------------------------------------------------
(* execute_command *)

\* the parent waiting for the child whatever the flag
ShouldWaitAlways(bg) == TRUE

\* !background: the parent waits for the child
\* the parent never waiting
ShouldWaitNever(bg) == FALSE

ShouldWait(bg) == bg = 0

\* who the child of execute_command is: the command of a background line,
\* of a plain line, or the right-hand command of an AND line
EcRole ==
    IF background = 1 THEN "bg"
    ELSE IF \E i \in 1..Len(trace) : trace[i].op = "inspect" THEN "andR"
    ELSE "fg"

\* pid = fork(); pid < 0: perror("fork failed") and return
EcFork ==
    /\ pc = "ec_fork"
    /\ \E r \in ForkResults :
        IF r < 0
        THEN /\ Log2(Ev("fork", r, 0, "cmd"), Ev("perror", 0, 0, "fork failed"))
             /\ Continue
             /\ UNCHANGED procs
        ELSE /\ procs' = Append(procs, NewProc(EcRole, shFds, <<>>, args))
             /\ pid' = r
             /\ pc' = "ec_parent"
             /\ Log(Ev("fork", r, 0, "cmd"))
             /\ UNCHANGED <<line, left, right, args, background, pid1, pid2,
                            status>>
    /\ UNCHANGED <<nread, lineRead, Aux, shFds, cwd, envPWD>>

\* parent, !background: waitpid(pid, NULL, 0)
EcWait ==
    /\ pc = "ec_parent"
    /\ ShouldWait(background)
    /\ \E o \in WaitOutcomes(pid) :
        /\ procs' = Reap(o)
        /\ Log(Ev("wait", pid, o.ret, o.st))
    /\ Continue
    /\ UNCHANGED <<nread, lineRead, Aux, shFds, cwd, envPWD>>

\* parent, background: printf("[BG] Process ID: %d\n", pid)
EcPrintBg ==
    /\ pc = "ec_parent"
    /\ ~ ShouldWait(background)
    /\ Log(Ev("print", pid, 0, "BG"))
    /\ Continue
    /\ UNCHANGED <<nread, lineRead, Aux, shFds, procs, cwd, envPWD>>

-----------------------------------------------------------------------------
(* handle_and *)

\* parse_input(left, args); pid = fork()  (the result is not tested for -1)
AndFork ==
    /\ pc = "and_fork"
    /\ args' = parse_input(left)
    /\ \E r \in ForkResults :
        /\ pid' = r
        /\ procs' = IF r < 0 THEN procs
                    ELSE Append(procs, NewProc("andL", shFds, <<>>, parse_input(left)))
        /\ Log(Ev("fork", r, 0, "left"))
    /\ pc' = "and_wait"
    /\ UNCHANGED <<nread, lineRead, Aux, line, left, right, background, pid1,
                   pid2, status,
                   shFds, cwd, envPWD>>

\* the value of `int status` after waitpid(pid, &status, 0) returned o:
\* waitpid stores only when it collected a child; otherwise the variable
\* keeps its indeterminate initial value
StatusAfter(o) == IF o.ret = -1 THEN StatusValues ELSE {o.st}

\* WIFEXITED(status) && WEXITSTATUS(status) == 0
LeftSucceeded(st) == WIFEXITED(st) /\ WEXITSTATUS(st) = 0

\* waitpid(pid, &status, 0); the test of status; then either
\* parse_input(right, args) and the call of execute_command(args, 0),
\* or the return to main
AndWait ==
    /\ pc = "and_wait"
    /\ \E o \in WaitOutcomes(pid) : \E st \in StatusAfter(o) :
        /\ procs' = Reap(o)
        /\ IF LeftSucceeded(st)
           THEN /\ status' = st
                /\ args' = parse_input(right)
                /\ background' = 0
                /\ pc' = "ec_fork"
                /\ trace' = trace \o <<Ev("wait", pid, o.ret, o.st),
                                       Ev("inspect", 0, 0, st),
                                       Ev("call", 0, 0, "execute_command")>>
                /\ UNCHANGED <<line, left, right, pid, pid1, pid2>>
           ELSE /\ Continue
                /\ trace' = trace \o <<Ev("wait", pid, o.ret, o.st),
                                       Ev("inspect", 0, 0, st)>>
    /\ UNCHANGED <<nread, lineRead, Aux, shFds, cwd, envPWD>>

-----------------------------------------------------------------------------
(* handle_pipe *)

\* handle_pipe with the parent's two close calls placed before the second
\* fork
PipeNextCloseEarly(at) ==
    CASE at = "pipe_create" -> "pipe_fork1"
      [] at = "pipe_fork1" -> "pipe_close0"
      [] at = "pipe_close0" -> "pipe_close1"
      [] at = "pipe_close1" -> "pipe_fork2"
      [] at = "pipe_fork2" -> "pipe_wait1"
      [] at = "pipe_wait1" -> "pipe_wait2"
      [] at = "pipe_wait2" -> "prompt"

\* handle_pipe with the parent's two close calls left out
PipeNextNoClose(at) ==
    CASE at = "pipe_create" -> "pipe_fork1"
      [] at = "pipe_fork1" -> "pipe_fork2"
      [] at = "pipe_fork2" -> "pipe_wait1"
      [] at = "pipe_close0" -> "pipe_close1"
      [] at = "pipe_close1" -> "pipe_wait1"
      [] at = "pipe_wait1" -> "pipe_wait2"
      [] at = "pipe_wait2" -> "prompt"

\* the statements of the parent in handle_pipe, in program order
PipeNext(at) ==
    CASE at = "pipe_create" -> "pipe_fork1"
      [] at = "pipe_fork1" -> "pipe_fork2"
      [] at = "pipe_fork2" -> "pipe_close0"
      [] at = "pipe_close0" -> "pipe_close1"
      [] at = "pipe_close1" -> "pipe_wait1"
      [] at = "pipe_wait1" -> "pipe_wait2"
      [] at = "pipe_wait2" -> "prompt"

\* pipe(pipefd)
PipeCreate ==
    /\ pc = "pipe_create"
    /\ shFds' = {"p0", "p1"}
    /\ Log(Ev("pipe", Len(procs), 0, "ok"))
    /\ pc' = PipeNext(pc)
    /\ UNCHANGED <<nread, lineRead, Aux, Locals, procs, cwd, envPWD>>

\* pid1 = fork()  (the result is not tested for -1)
PipeFork1 ==
    /\ pc = "pipe_fork1"
    /\ \E r \in ForkResults :
        /\ pid1' = r
        /\ procs' = IF r < 0 THEN procs
                    ELSE Append(procs, NewProc("pipeL", shFds, left, <<>>))
        /\ Log(Ev("fork", r, 0, "left"))
    /\ pc' = PipeNext(pc)
    /\ UNCHANGED <<nread, lineRead, Aux, line, left, right, args, background,
                   pid, pid2,
                   status, shFds, cwd, envPWD>>

\* pid2 = fork()  (the result is not tested for -1)
PipeFork2 ==
    /\ pc = "pipe_fork2"
    /\ \E r \in ForkResults :
        /\ pid2' = r
        /\ procs' = IF r < 0 THEN procs
                    ELSE Append(procs, NewProc("pipeR", shFds, right, <<>>))
        /\ Log(Ev("fork", r, 0, "right"))
    /\ pc' = PipeNext(pc)
    /\ UNCHANGED <<nread, lineRead, Aux, line, left, right, args, background,
                   pid, pid1,
                   status, shFds, cwd, envPWD>>

\* close(pipefd[0])
PipeClose0 ==
    /\ pc = "pipe_close0"
    /\ shFds' = CloseFd(shFds, "p0")
    /\ Log(Ev("close", 0, 0, IF "p0" \in shFds THEN "ok" ELSE "EBADF"))
    /\ pc' = PipeNext(pc)
    /\ UNCHANGED <<nread, lineRead, Aux, Locals, procs, cwd, envPWD>>

\* close(pipefd[1])
PipeClose1 ==
    /\ pc = "pipe_close1"
    /\ shFds' = CloseFd(shFds, "p1")
    /\ Log(Ev("close", 1, 0, IF "p1" \in shFds THEN "ok" ELSE "EBADF"))
    /\ pc' = PipeNext(pc)
    /\ UNCHANGED <<nread, lineRead, Aux, Locals, procs, cwd, envPWD>>

\* waitpid(pid1, NULL, 0)
PipeWait1 ==
    /\ pc = "pipe_wait1"
    /\ \E o \in WaitOutcomes(pid1) :
        /\ procs' = Reap(o)
        /\ Log(Ev("wait", pid1, o.ret, o.st))
    /\ pc' = PipeNext(pc)
    /\ UNCHANGED <<nread, lineRead, Aux, Locals, shFds, cwd, envPWD>>

\* waitpid(pid2, NULL, 0) and the return to main
PipeWait2 ==
    /\ pc = "pipe_wait2"
    /\ \E o \in WaitOutcomes(pid2) :
        /\ procs' = Reap(o)
        /\ Log(Ev("wait", pid2, o.ret, o.st))
    /\ pc' = PipeNext(pc)
    /\ ClearLocals
    /\ UNCHANGED <<nread, lineRead, Aux, shFds, cwd, envPWD>>

-----------------------------------------------------------------------------
(* The child processes *)

ShellUnchanged ==
    UNCHANGED <<pc, nread, Locals, shFds, cwd, envPWD, trace, lineRead, Aux>>

\* pipe child: dup2(pipefd[1], STDOUT_FILENO) / dup2(pipefd[0], STDIN_FILENO)
ChildDup2(p) ==
    /\ procs[p].pc = "dup2"
    /\ procs' = [procs EXCEPT
          ![p].fds = IF procs[p].role = "pipeL"
                     THEN IF "p1" \in @ THEN @ \cup {"out"} ELSE @
                     ELSE IF "p0" \in @ THEN @ \cup {"in"} ELSE @,
          ![p].pc = "close_a"]
    /\ ShellUnchanged

\* the child's record after close(fd)
ChildClose(ch, fd) ==
    [ch EXCEPT !.fds = CloseFd(@, fd),
               !.c0 = IF fd = "p0" THEN @ + 1 ELSE @,
               !.c1 = IF fd = "p1" THEN @ + 1 ELSE @,
               !.ebadf = @ \/ fd \notin ch.fds]

\* left child: close(pipefd[0]); right child: close(pipefd[1])
ChildCloseA(p) ==
    /\ procs[p].pc = "close_a"
    /\ procs' = [procs EXCEPT
          ![p] = [ChildClose(@, IF @.role = "pipeL" THEN "p0" ELSE "p1")
                    EXCEPT !.pc = "close_b"]]
    /\ ShellUnchanged

\* left child: close(pipefd[1]); right child: close(pipefd[0])
ChildCloseB(p) ==
    /\ procs[p].pc = "close_b"
    /\ procs' = [procs EXCEPT
          ![p] = [ChildClose(@, IF @.role = "pipeL" THEN "p1" ELSE "p0")
                    EXCEPT !.pc = "exec"]]
    /\ ShellUnchanged

\* both pipe children tokenizing the left command string
ChildArgvLeft(ch) ==
    IF ch.role \in {"pipeL", "pipeR"} THEN parse_input(left) ELSE ch.argv

\* the argument vector the child passes to execvp: pipe children tokenize
\* their command string first (parse_input(left/right, args))
ChildArgv(ch) ==
    IF ch.role \in {"pipeL", "pipeR"} THEN parse_input(ch.cmd) ELSE ch.argv

\* the process killed by a signal, or having called exit: all its
\* descriptors are closed, its status waits to be collected
Terminated(ch, st) == [ch EXCEPT !.pc = "zombie", !.st = st, !.fds = {}]

\* execvp(args[0], args).  It replaces the image, or returns -1.  With
\* args[0] == NULL the call is made on a null pointer: it returns -1
\* (EFAULT) or the process is killed by the fault, never runs a program.
ChildExec(p) ==
    /\ procs[p].pc = "exec"
    /\ LET a == ChildArgv(procs[p])
       IN  \E r \in (IF a = <<>> THEN {"fault", "returns"}
                                ELSE {"image", "returns"}) :
             procs' = [procs EXCEPT ![p] =
                CASE r = "image" -> [@ EXCEPT !.argv = a, !.pc = "running"]
                  [] r = "fault" -> Terminated([@ EXCEPT !.argv = a], "signal")
                  [] r = "returns" -> [@ EXCEPT !.argv = a,
                                                !.pc = "exec_failed",
                                                !.execFailed = TRUE]]
    /\ ShellUnchanged

\* the exit after perror left out: the child goes on in the code of the
\* shell that follows the branch
ExecFailFallThrough(ch) == [ch EXCEPT !.reported = TRUE, !.pc = "shell_flow"]

\* after execvp returned: perror("exec ..."); exit(EXIT_FAILURE) / exit(1)
ExecFailExit(ch) == Terminated([ch EXCEPT !.reported = TRUE], EXIT_FAILURE)

ChildExecFailed(p) ==
    /\ procs[p].pc = "exec_failed"
    /\ procs' = [procs EXCEPT ![p] = ExecFailExit(@)]
    /\ ShellUnchanged

\* some process holds a reference to the write end of the pipe channel
WriteEndOpen == "p1" \in shFds \/ \E q \in Pids : procs[q].fds \cap {"p1", "out"} # {}

\* the program terminates, with any status
ChildTerminate(p) ==
    /\ procs[p].pc = "running"
    /\ \E st \in StatusValues : procs' = [procs EXCEPT ![p] = Terminated(@, st)]
    /\ ShellUnchanged

\* the right program of a pipe reads end-of-stream on its standard input
\* and terminates
ChildReadEof(p) ==
    /\ procs[p].pc = "running"
    /\ procs[p].role = "pipeR"
    /\ "in" \in procs[p].fds
    /\ ~ WriteEndOpen
    /\ \E st \in StatusValues : procs' = [procs EXCEPT ![p] = Terminated(@, st)]
    /\ ShellUnchanged

-----------------------------------------------------------------------------

ShellStep ==
    \/ EcFork \/ EcWait \/ EcPrintBg
    \/ AndFork \/ AndWait
    \/ PipeCreate \/ PipeFork1 \/ PipeFork2 \/ PipeClose0 \/ PipeClose1
    \/ PipeWait1 \/ PipeWait2

ChildSetup(p) ==
    ChildDup2(p) \/ ChildCloseA(p) \/ ChildCloseB(p) \/ ChildExec(p)
        \/ ChildExecFailed(p)

Next ==
    \/ MainEOF
    \/ MainEmptyLine
    \/ MainAnd
    \/ MainPipe
    \/ MainNoCommand
    \/ MainCd
    \/ MainPwd
    \/ MainExit
    \/ MainHistory
    \/ MainExecute
    \/ EcFork
    \/ EcWait
    \/ EcPrintBg
    \/ AndFork
    \/ AndWait
    \/ PipeCreate
    \/ PipeFork1
    \/ PipeFork2
    \/ PipeClose0
    \/ PipeClose1
    \/ PipeWait1
    \/ PipeWait2
    \/ \E p \in Pids : ChildDup2(p)
    \/ \E p \in Pids : ChildCloseA(p)
    \/ \E p \in Pids : ChildCloseB(p)
    \/ \E p \in Pids : ChildExec(p)
    \/ \E p \in Pids : ChildExecFailed(p)
    \/ \E p \in Pids : ChildTerminate(p)
    \/ \E p \in Pids : ChildReadEof(p)

Spec == Init /\ [][Next]_vars

\* Scheduling: the shell process runs whenever it is not blocked in
\* waitpid or fgets; every child runs up to its exec or exit; the right
\* program of a pipe terminates once it reads end-of-stream.  Nothing makes
\* input arrive, and nothing makes any other program terminate.
FairSpec ==
    /\ Spec
    /\ WF_vars(ShellStep)
    /\ WF_vars(\E p \in Pids : ChildSetup(p))
    /\ WF_vars(\E p \in Pids : ChildReadEof(p))

-----------------------------------------------------------------------------
(* Vocabulary of the properties *)

\* the positions of the trace holding an event of kind op
At(op) == { i \in 1..Len(trace) : trace[i].op = op }

\* the shell is inside handle_pipe
InPipe ==
    pc \in {"pipe_create", "pipe_fork1", "pipe_fork2", "pipe_close0",
            "pipe_close1", "pipe_wait1", "pipe_wait2"}

\* the shell is back in main: the line read last has been dealt with
LineDone == pc \in {"prompt", "done"}

\* the line being executed (or just executed) is an AND line / a pipe line
AndLine == pc = "and_wait" \/ At("inspect") # {}

PipeLine == At("pipe") # {}

\* the process id fork returned for the left command of the AND line
\* (-1: no child), and the status waitpid collected for that very child
\* ("none" when there is none)
AndLeftPid == trace[1].n

AndLeftCollected ==
    IF AndLeftPid > 0 /\ \E i \in At("wait") : trace[i].m = AndLeftPid
    THEN trace[CHOOSE i \in At("wait") : trace[i].m = AndLeftPid].s
    ELSE "none"

\* handle_and called execute_command for the right-hand command
AndRightLaunched == AndLine /\ At("call") # {}

\* the fork calls of the current line for one side, and those that succeeded
ForkCalls(side) == { i \in At("fork") : trace[i].s = side }

Forked(side) == { i \in ForkCalls(side) : trace[i].n > 0 }

IsPipeChild(p) == procs[p].role \in {"pipeL", "pipeR"}

\* the pipe child has done its dup2 and its two close calls
Wired(p) == procs[p].pc \in {"exec", "exec_failed", "running"}

\* a process has terminated (its status may or may not be collected)
Gone(p) == procs[p].pc \in {"zombie", "reaped"}

\* Only one pipe channel has references at a time: no child of a pipe line
\* outlives handle_pipe unreaped, and the shell holds no descriptor outside it.
OneChannel ==
    ~ InPipe =>
        /\ shFds = {}
        /\ \A p \in Pids : procs[p].role \in {"pipeL", "pipeR"} => procs[p].pc = "reaped"

-----------------------------------------------------------------------------
(* C1.  For a line containing &&, the right-hand command is launched if    *)
(* and only if the status the shell collected for the left-hand command is *)
(* normal termination with exit code 0; otherwise nothing is spawned for   *)
(* the right-hand command and nothing else happens.                        *)
(* Stated of every AND line whose status test has been made.               *)
C1_RightIffLeftExitedZero ==
    At("inspect") # {} =>
        /\ AndRightLaunched <=> AndLeftCollected = "exit0"
        /\ ~ AndRightLaunched =>
              /\ LineDone
              /\ \A i \in At("fork") : trace[i].s = "left"

-----------------------------------------------------------------------------
(* C2.  In handle_and the right-hand process never exists at the same time *)
(* as a left-hand process that has not terminated and been collected: when *)
(* the right-hand child has been spawned, the left-hand child (if one was  *)
(* created) has terminated and its status has been collected by the shell. *)
(* Stated of every right-hand child from its fork until it is collected.   *)
C2_RightAfterLeftCollected ==
    \A q \in Pids : procs[q].role = "andR" /\ procs[q].pc # "reaped" =>
        \A p \in Pids : procs[p].role = "andL" => procs[p].pc = "reaped"

\* the right-hand child runs, the left-hand one was created and is collected
C2_Witness ==
    \E q \in Pids :
        /\ procs[q].role = "andR"
        /\ procs[q].pc = "running"
        /\ q > 1
        /\ procs[q - 1].role = "andL"
        /\ procs[q - 1].pc = "reaped"
        /\ AndLeftCollected = "exit0"

-----------------------------------------------------------------------------
(* C7.  When fork fails in any executor, the failure is reported and the   *)
(* operation is aborted: the shell performs no further spawn, wait or      *)
(* status inspection for that input line.                                  *)
C7_ForkFailureAborts ==
    \A i \in At("fork") : trace[i].n < 0 =>
        /\ \A j \in (i + 1)..Len(trace) : j = i + 1 /\ trace[j].op = "perror"
        /\ LineDone => Len(trace) = i + 1

-----------------------------------------------------------------------------
(* C8.  A background launch never later synchronizes with the spawned      *)
(* process: no operation of the shell ever collects the termination status *)
(* of a background child.                                                  *)
C8_BackgroundNeverCollected ==
    \A p \in Pids : procs[p].role = "bg" => procs[p].pc # "reaped"

-----------------------------------------------------------------------------
(* C3.  In handle_pipe both children are spawned (both fork calls have     *)
(* been made) before the shell closes either of its pipe descriptors, and  *)
(* the shell has closed both of its pipe descriptors before it starts      *)
(* waiting for any child.                                                  *)
C3_ForkThenCloseThenWait ==
    PipeLine =>
        /\ \A i \in At("close") :
              /\ \E j \in 1..(i - 1) : trace[j].op = "fork" /\ trace[j].s = "left"
              /\ \E j \in 1..(i - 1) : trace[j].op = "fork" /\ trace[j].s = "right"
        /\ \A i \in At("wait") :
              /\ \E j \in 1..(i - 1) : trace[j].op = "close" /\ trace[j].n = 0
              /\ \E j \in 1..(i - 1) : trace[j].op = "close" /\ trace[j].n = 1
        /\ pc \in {"pipe_close0", "pipe_close1"} => pid1 # 0 /\ pid2 # 0
        /\ pc \in {"pipe_wait1", "pipe_wait2"} => shFds = {}

\* the shell is about to wait, both children exist and still hold the ends
\* they inherited
C3_Witness ==
    /\ pc = "pipe_wait1"
    /\ pid1 > 0
    /\ pid2 > 0
    /\ shFds = {}
    /\ procs[pid1].pc = "dup2"
    /\ procs[pid2].pc = "dup2"
    /\ procs[pid1].fds = {"p0", "p1"}
    /\ procs[pid2].fds = {"p0", "p1"}

-----------------------------------------------------------------------------
(* C4.  In handle_pipe each of the three processes closes each pipe        *)
(* descriptor it holds exactly once (no close of a descriptor that is not  *)
(* open, none left open): once a child has wired its redirection, its only *)
(* reference to the channel is its standard output (left child, write end) *)
(* or its standard input (right child, read end); and once both children   *)
(* have terminated and the shell has made its two close calls, no process  *)
(* holds a descriptor of the channel.                                      *)
C4_EndsClosedExactlyOnce ==
    /\ \A i \in At("close") : trace[i].s = "ok"
    /\ \A p \in Pids :
          /\ ~ procs[p].ebadf
          /\ procs[p].c0 <= 1
          /\ procs[p].c1 <= 1
          /\ ~ IsPipeChild(p) => procs[p].fds = {}
          /\ IsPipeChild(p) /\ Wired(p) =>
                /\ procs[p].c0 = 1
                /\ procs[p].c1 = 1
                /\ procs[p].fds = IF procs[p].role = "pipeL" THEN {"out"} ELSE {"in"}
    /\ pc \in {"pipe_wait1", "pipe_wait2"} \/ (PipeLine /\ LineDone) =>
          /\ shFds = {}
          /\ Cardinality({ i \in At("close") : trace[i].n = 0 }) = 1
          /\ Cardinality({ i \in At("close") : trace[i].n = 1 }) = 1
          /\ (\A p \in Pids : IsPipeChild(p) => ~ Alive(p)) =>
                \A p \in Pids : procs[p].fds = {}

\* both programs run on the wired channel, the shell holds nothing
C4_Witness ==
    /\ pc = "pipe_wait1"
    /\ pid1 > 0
    /\ pid2 > 0
    /\ procs[pid1].pc = "running"
    /\ procs[pid2].pc = "running"
    /\ procs[pid1].fds = {"out"}
    /\ procs[pid2].fds = {"in"}
    /\ shFds = {}

-----------------------------------------------------------------------------
-----------------------------------------------------------------------------
\* a pipe line whose two forks succeeded, the left child terminated
C5_LeftDone ==
    /\ InPipe
    /\ pid1 > 0
    /\ pid2 > 0
    /\ Gone(pid1)

(* C5.  In handle_pipe, whenever the left child has terminated (its        *)
(* program ended, or its exec failed), the right child eventually finds    *)
(* end-of-stream on its standard input: every reference to the write end   *)
(* gets closed; and, the right program terminating once it reads           *)
(* end-of-stream, handle_pipe eventually returns to the main loop, in      *)
(* every interleaving of the three processes.                              *)
C5_EofThenReturn ==
    /\ C5_LeftDone ~> ~ WriteEndOpen
    /\ C5_LeftDone ~> LineDone

\* the left child is gone while the right program still runs on the channel,
\* the shell blocked in its first wait
C5_Witness ==
    /\ C5_LeftDone
    /\ pc = "pipe_wait1"
    /\ procs[pid1].pc = "zombie"
    /\ procs[pid1].execFailed
    /\ procs[pid2].pc = "running"
    /\ procs[pid2].fds = {"in"}
    /\ ~ WriteEndOpen

-----------------------------------------------------------------------------
\* the parent branch of execute_command, background set: the child exists
C9_BgSpawned ==
    /\ pc = "ec_parent"
    /\ background = 1

\* back at the prompt, the line printed last names the pid fork returned
C9_BgPrinted ==
    /\ pc = "prompt"
    /\ Len(trace) >= 2
    /\ trace[Len(trace)].op = "print"
    /\ trace[Len(trace)].s = "BG"
    /\ trace[Len(trace) - 1].op = "fork"
    /\ trace[Len(trace)].n = trace[Len(trace) - 1].n

(* C9.  A background launch returns control to the main loop without       *)
(* waiting for the child: after the spawn the shell prints the child's     *)
(* process id and reaches the next prompt, even if the spawned process     *)
(* never terminates.                                                       *)
C9_BackgroundReturns == C9_BgSpawned ~> C9_BgPrinted

\* the shell is at the prompt, the id printed, the background program running
C9_Witness ==
    /\ C9_BgPrinted
    /\ procs[trace[Len(trace)].n].role = "bg"
    /\ procs[trace[Len(trace)].n].pc = "running"

-----------------------------------------------------------------------------
\* the step a child takes after its execvp returned
C10_ExecFailureStep(p) ==
    /\ procs[p].pc = "exec_failed"
    /\ procs'[p] # procs[p]

(* C10.  If exec fails in a child, that child reports the failure and      *)
(* terminates with a non-zero status; it never goes on in the shell's      *)
(* control flow; and only that child is terminated: the step changes no    *)
(* other process and nothing of the shell.  A child whose execvp returned  *)
(* stays where it is until it takes that step, and no such child is left   *)
(* waiting for ever.                                                       *)
C10_ExecFailureExitsChildOnly ==
    /\ [][\A p \in Pids : C10_ExecFailureStep(p) =>
            /\ procs'[p].pc = "zombie"
            /\ procs'[p].reported
            /\ WIFEXITED(procs'[p].st)
            /\ WEXITSTATUS(procs'[p].st) # 0
            /\ \A q \in Pids \ {p} : procs'[q] = procs[q]
            /\ DOMAIN procs' = DOMAIN procs
            /\ UNCHANGED <<pc, nread, Locals, shFds, cwd, envPWD, trace>>]_vars
    /\ [][\A p \in Pids :
            (procs[p].pc = "exec" /\ procs'[p].execFailed)
               => procs'[p].pc = "exec_failed"]_vars
    /\ []<>(\A p \in Pids : procs[p].pc # "exec_failed")

\* a pipe child whose exec failed has exited with status 1 after reporting,
\* its sibling runs on, the shell waits
C10_Witness ==
    \E p \in Pids \ {1} :
        /\ procs[p].role = "pipeR"
        /\ procs[p].execFailed
        /\ procs[p].reported
        /\ procs[p].pc = "zombie"
        /\ procs[p].st = "exit1"
        /\ procs[p - 1].role = "pipeL"
        /\ procs[p - 1].pc = "running"
        /\ pc = "pipe_wait1"

\* a pipe child, not yet reaped, whose command string holds no token
EmptySide(p) ==
    /\ IsPipeChild(p)
    /\ procs[p].pc # "reaped"
    /\ parse_input(procs[p].cmd) = <<>>

\* the child has made its execvp call
ExecInvoked(p) == procs[p].pc \in {"exec_failed", "running", "zombie"}

(* C11: a pipe child whose command tokenizes to zero tokens ("|x", "x|")   *)
(* never calls exec with a null program name: before its exec step it is   *)
(* still setting up its descriptors, and otherwise it has terminated by    *)
(* exiting with a non-zero status after reporting the failure, no execvp   *)
(* call having been made.                                                  *)
C11_EmptySideFailsWithoutExec ==
    \A p \in Pids : EmptySide(p) =>
        \/ ~ ExecInvoked(p)
        \/ /\ procs[p].pc = "zombie"
           /\ procs[p].reported
           /\ WIFEXITED(procs[p].st)
           /\ WEXITSTATUS(procs[p].st) # 0
           /\ ~ procs[p].execFailed

\* positions of the operators in a line, and the parts of a line before
\* position i and from position i on
AndAndAt(l) == { i \in 1..(Len(l) - 1) : l[i] = "&" /\ l[i + 1] = "&" }

CharAt(l, c) == { i \in 1..Len(l) : l[i] = c }

First(S) == CHOOSE i \in S : \A j \in S : i <= j

Before(l, i) == [k \in 1..(i - 1) |-> l[k]]

From(l, i) == [k \in 1..(Len(l) - i + 1) |-> l[k + i - 1]]

\* the executor the shell has entered for the line read last
OnAndRoute == pc \in {"and_fork", "and_wait"} \/ At("inspect") # {}

OnPipeRoute == InPipe \/ PipeLine

OnCommandRoute == trace # <<>> /\ trace[1].op = "call"

(* C12: the dispatcher classifies a line by the first test that matches.   *)
(* A line containing "&&" goes to the Conditional Executor only, split at  *)
(* the first "&&", whatever else it contains; otherwise a line containing  *)
(* "|" goes to the Pipe Executor only, split at the first "|"; otherwise   *)
(* a line containing "&" is cut at the first "&" and the Process Launcher, *)
(* if called, is called in non-waiting mode; otherwise the Process         *)
(* Launcher, if called, is called in waiting mode.  No line is on two      *)
(* routes.                                                                 *)
C12_FirstMatchWins ==
    nread > 0 =>
      LET l == lineRead
      IN  CASE AndAndAt(l) # {} ->
                 /\ OnAndRoute /\ ~ OnPipeRoute /\ ~ OnCommandRoute
                 /\ pc = "and_fork" =>
                       /\ left = Before(l, First(AndAndAt(l)))
                       /\ right = From(l, First(AndAndAt(l)) + 2)
            [] AndAndAt(l) = {} /\ CharAt(l, "|") # {} ->
                 /\ OnPipeRoute /\ ~ OnAndRoute /\ ~ OnCommandRoute
                 /\ pc = "pipe_create" =>
                       /\ left = Before(l, First(CharAt(l, "|")))
                       /\ right = From(l, First(CharAt(l, "|")) + 1)
            [] OTHER ->
                 LET bg == IF CharAt(l, "&") # {} THEN 1 ELSE 0
                     cmd == IF bg = 1 THEN Before(l, First(CharAt(l, "&")))
                                      ELSE l
                 IN  /\ ~ OnAndRoute /\ ~ OnPipeRoute
                     /\ OnCommandRoute => trace[1].n = bg
                     /\ pc = "ec_fork" =>
                           /\ background = bg
                           /\ args = parse_input(cmd)

\* "cd &&exit |x&&y" went to the Conditional Executor, split at the first
\* "&&": the left command ran as cd, the right one runs as exit |x&&y
C12_Witness ==
    /\ AndAndAt(lineRead) # {}
    /\ CharAt(lineRead, "|") # {}
    /\ pc = "ec_parent"
    /\ \E p \in Pids : /\ procs[p].role = "andR"
                       /\ procs[p].pc = "running"
                       /\ procs[p].argv = <<<<"e", "x", "i", "t">>,
                                             <<"|", "x", "&", "&", "y">>>>

\* the line read last holds none of the operators
NoOperator(l) == CharAt(l, "&") = {} /\ CharAt(l, "|") = {}

\* the words of a line: its maximal runs of characters that are not
\* blanks, tabs or newlines, in order
WordStarts(l) ==
    { i \in 1..Len(l) : ~ IsDelim(l[i]) /\ (i = 1 \/ IsDelim(l[i - 1])) }

WordAt(l, i) ==
    LET e == CHOOSE j \in i..Len(l) :
                 /\ \A k \in i..j : ~ IsDelim(l[k])
                 /\ (j = Len(l) \/ IsDelim(l[j + 1]))
    IN  [k \in 1..(e - i + 1) |-> l[k + i - 1]]

BuiltinNames == {CD, PWD, EXIT, HISTORY}

\* the line has a first word, and it is not the name of a built-in
ExternalCommand(l) ==
    /\ WordStarts(l) # {}
    /\ WordAt(l, First(WordStarts(l))) \notin BuiltinNames

\* the children spawned for the line read last, by the fork call that
\* created them, and the waits that collected a child
Spawned == { i \in At("fork") : trace[i].n > 0 }

Collected(p) == { i \in At("wait") : trace[i].n = p /\ trace[i].m = p }

(* C13 as stated: once a line with no operator has been dealt with,        *)
(* exactly one child was spawned for it and that child was waited for.     *)
C13_OneChildPerPlainLine ==
    (nread > 0 /\ LineDone /\ NoOperator(lineRead)) =>
        /\ Cardinality(Spawned) = 1
        /\ \A i \in Spawned : Collected(trace[i].n) # {}

(* C13, amended: once a line with no operator whose first word exists and  *)
(* is not a built-in name has been dealt with, the Process Launcher was    *)
(* called exactly once, in waiting mode, and called fork exactly once; if  *)
(* the fork succeeded exactly one child was spawned, and it was waited for *)
(* and collected before the prompt; if it failed the failure was reported  *)
(* and nothing was spawned or waited for.  Nothing was printed for a       *)
(* background child.                                                       *)
C13_OneForegroundLaunch ==
    (nread > 0 /\ LineDone /\ NoOperator(lineRead)
       /\ ExternalCommand(lineRead)) =>
        /\ Cardinality(At("call")) = 1
        /\ trace[1] = Ev("call", 0, 0, "execute_command")
        /\ Cardinality(At("fork")) = 1
        /\ \A i \in At("fork") :
              IF trace[i].n > 0
              THEN /\ Cardinality(At("wait")) = 1
                   /\ Collected(trace[i].n) # {}
                   /\ procs[trace[i].n].role = "fg"
                   /\ procs[trace[i].n].pc = "reaped"
                   /\ At("perror") = {}
              ELSE /\ At("wait") = {}
                   /\ \E j \in At("perror") : trace[j].s = "fork failed"
        /\ \A i \in At("print") : trace[i].s # "BG"

\* the line "x" has been dealt with: one child was spawned, waited for with
\* status exit 1 and reaped
C13_Witness ==
    /\ lineRead = <<"x", NL>>
    /\ pc = "prompt"
    /\ \E p \in Pids :
          /\ procs[p].pc = "reaped"
          /\ trace = <<Ev("call", 0, 0, "execute_command"),
                       Ev("fork", p, 0, "cmd"),
                       Ev("wait", p, p, "exit1")>>

\* a command string without a word
NoWords(s) == WordStarts(s) = {}

\* a command of the line is empty once the operator is taken out
Malformed(l) ==
    CASE AndAndAt(l) # {} ->
           \/ NoWords(Before(l, First(AndAndAt(l))))
           \/ NoWords(From(l, First(AndAndAt(l)) + 2))
      [] AndAndAt(l) = {} /\ CharAt(l, "|") # {} ->
           \/ NoWords(Before(l, First(CharAt(l, "|"))))
           \/ NoWords(From(l, First(CharAt(l, "|")) + 1))
      [] OTHER ->
           /\ CharAt(l, "&") # {}
           /\ NoWords(Before(l, First(CharAt(l, "&"))))

(* C14: a line with an operator and an empty command ("&", "&&x", "x&&",   *)
(* "|x", "x|") is silently ignored: the shell is back at its prompt (or at *)
(* end-of-input) at once, having forked, waited for and reported nothing.  *)
C14_MalformedIgnored ==
    (nread > 0 /\ Malformed(lineRead)) => (LineDone /\ trace = <<>>)

\* the line is dealt with as a command line and its first word is exit
ExitLine(l) ==
    /\ AndAndAt(l) = {}
    /\ CharAt(l, "|") = {}
    /\ LET cmd == IF CharAt(l, "&") # {}
                  THEN Before(l, First(CharAt(l, "&"))) ELSE l
       IN  /\ WordStarts(cmd) # {}
           /\ WordAt(cmd, First(WordStarts(cmd))) = EXIT

\* the shell has just been returned -1 by fork
ForkJustFailed ==
    /\ Len(trace') = Len(trace) + 1 \/ Len(trace') = Len(trace) + 2
    /\ trace'[Len(trace) + 1].op = "fork"
    /\ trace'[Len(trace) + 1].n < 0

\* child p has just had execvp return, or has just terminated
ChildOutcome(p) ==
    /\ procs[p].pc \in {"exec", "exec_failed", "running"}
    /\ procs'[p].pc \in {"exec_failed", "zombie"}
    /\ procs'[p].pc # procs[p].pc

(* C15: the main loop is left only from the prompt, on end-of-input or on  *)
(* a line whose command is exit; a failed fork leaves the shell in the     *)
(* loop; and a step in which a child fails to exec, exits or is killed     *)
(* changes nothing but that child: the shell stays where it is, and so do  *)
(* the other children.                                                     *)
C15_LoopEndsOnlyOnExitOrEof ==
    /\ [][(pc' = "done" /\ pc # "done") =>
            /\ pc = "prompt"
            /\ nread' = nread \/ ExitLine(lineRead')]_vars
    /\ [][ForkJustFailed => pc' # "done"]_vars
    /\ [][\A p \in Pids : ChildOutcome(p) =>
            /\ UNCHANGED <<pc, nread, Locals, shFds, cwd, envPWD, trace,
                           lineRead>>
            /\ DOMAIN procs' = DOMAIN procs
            /\ \A q \in Pids \ {p} : procs'[q] = procs[q]]_vars

\* the shell is at its prompt after two lines: the background child of the
\* first failed to exec, the foreground child of the second was killed
C15_Witness ==
    /\ pc = "prompt"
    /\ nread = 2
    /\ \E i \in At("wait") : trace[i].s = "signal"
    /\ \E p \in Pids : /\ procs[p].role = "bg"
                       /\ procs[p].execFailed
                       /\ procs[p].pc = "zombie"

\* a line that holds a "&" and neither "&&" nor "|", and what is left of
\* it when it is cut at the "&"
BgLine(l) == AndAndAt(l) = {} /\ CharAt(l, "|") = {} /\ CharAt(l, "&") # {}

BgCommand(l) == Before(l, First(CharAt(l, "&")))

FirstWord(s) == WordAt(s, First(WordStarts(s)))

(* C16 as stated: once any line with a "&" (and no "&&", no "|") has been  *)
(* dealt with, exactly one child was spawned for it, it was not waited     *)
(* for, and one [BG] line was printed.                                     *)
C16_EveryBgLineSpawns ==
    (nread > 0 /\ LineDone /\ BgLine(lineRead)) =>
        /\ Cardinality(Spawned) = 1
        /\ At("wait") = {}
        /\ Cardinality({ i \in At("print") : trace[i].s = "BG" }) = 1

(* C16, amended: once a line with a "&" (and no "&&", no "|") has been     *)
(* dealt with: if nothing but blanks precedes the "&" nothing was done; if *)
(* the first word is a built-in name the built-in ran in the shell, with   *)
(* no fork and no [BG] line (exit ended the loop); otherwise the Process   *)
(* Launcher was called once in non-waiting mode and called fork once, and  *)
(* if the fork succeeded one child was spawned, its [BG] line printed with *)
(* its process id, and it was not waited for; if the fork failed that was  *)
(* reported and nothing else printed.                                      *)
C16_BackgroundLaunch ==
    (nread > 0 /\ LineDone /\ BgLine(lineRead)) =>
      LET cmd == BgCommand(lineRead)
      IN  CASE NoWords(cmd) -> trace = <<>>
            [] ~ NoWords(cmd) /\ FirstWord(cmd) \in BuiltinNames ->
                 /\ At("fork") = {}
                 /\ At("call") = {}
                 /\ \A i \in At("print") : trace[i].s # "BG"
                 /\ FirstWord(cmd) = CD => At("chdir") # {}
                 /\ FirstWord(cmd) = PWD => trace = <<Ev("print", 0, 0, "cwd")>>
                 /\ FirstWord(cmd) = HISTORY =>
                       trace = <<Ev("print", 0, 0, "history")>>
                 /\ FirstWord(cmd) = EXIT => (pc = "done" /\ trace = <<>>)
            [] OTHER ->
                 \E r \in {-1} \cup Pids :
                    /\ r > 0 =>
                         /\ trace = <<Ev("call", 1, 0, "execute_command"),
                                      Ev("fork", r, 0, "cmd"),
                                      Ev("print", r, 0, "BG")>>
                         /\ procs[r].role = "bg"
                    /\ r < 0 =>
                         trace = <<Ev("call", 1, 0, "execute_command"),
                                   Ev("fork", r, 0, "cmd"),
                                   Ev("perror", 0, 0, "fork failed")>>

\* "x &" has been dealt with: the child runs, its [BG] line is printed, the
\* shell is at the prompt
C16_Witness ==
    /\ lineRead = <<"x", " ", "&", NL>>
    /\ pc = "prompt"
    /\ \E p \in Pids :
          /\ procs[p].role = "bg"
          /\ procs[p].pc = "running"
          /\ trace = <<Ev("call", 1, 0, "execute_command"),
                       Ev("fork", p, 0, "cmd"),
                       Ev("print", p, 0, "BG")>>

-----------------------------------------------------------------------------
(* parse_input, statement by statement (ParseSpec)                         *)

\* the lines handed to parse_input: up to MaxWords words, the k-th being
\* one or two letters, after an optional blank, separated by a blank or by
\* a tab and a blank, with or without a final newline; and the lines
\* without a word
Letters == <<"a", "b", "c", "d", "e", "f", "g", "h", "i", "j", "k", "l", "m">>

Word(k) == IF k % 2 = 1 THEN <<Letters[k]>> ELSE <<Letters[k], Letters[k]>>

RECURSIVE LinesOf(_)
LinesOf(k) ==
    IF k = 0 THEN {<<>>, <<" ">>}
    ELSE { l \o Word(k) \o sep :
             l \in LinesOf(k - 1), sep \in {<<" ">>, <<"\t", " ">>} }

ParseLines ==
    {<<>>, <<NL>>, <<" ", "\t", NL>>}
        \cup UNION { { l \o Word(k) \o e : l \in LinesOf(k - 1),
                                           e \in {<<>>, <<NL>>} }
                     : k \in 1..MaxWords }

\* the content of an array slot that was never written
Junk == <<"junk">>

\* strtok on the string s that is left to scan: the delimiters in front are
\* skipped; at the end of the string the result is NULL; otherwise the
\* token runs up to the next delimiter, which is overwritten with a null
\* character, and the scan resumes behind it
RECURSIVE SkipDelims(_)
SkipDelims(s) ==
    IF s # <<>> /\ IsDelim(Head(s)) THEN SkipDelims(Tail(s)) ELSE s

RECURSIVE TokenLen(_)
TokenLen(s) ==
    IF s = <<>> \/ IsDelim(Head(s)) THEN 0 ELSE 1 + TokenLen(Tail(s))

strtok(s) ==
    LET t == SkipDelims(s)
        n == TokenLen(t)
    IN  IF t = <<>> THEN [token |-> NULL, rest |-> <<>>]
        ELSE [token |-> SubSeq(t, 1, n), rest |-> SubSeq(t, n + 2, Len(t))]

\* parse_input is called on a line; args is an array of MAX_ARGS slots
ParseInit ==
    /\ MainInit
    /\ HistoryInit
    /\ \E l \in ParseLines :
          pi = [pc |-> "start", line |-> l, rest |-> l, token |-> NULL,
                i |-> 0, args |-> [k \in 0..(MAX_ARGS - 1) |-> Junk],
                written |-> {}, ret |-> -1]

MainVars == <<pc, nread, Locals, shFds, procs, cwd, envPWD, trace, lineRead>>

HistVars == <<history, history_index, added, shown>>

\* args[k] = v
StoreArg(a, k, v) == IF k \in DOMAIN a THEN [a EXCEPT ![k] = v] ELSE a

\* int i = 0; char *token = strtok(line, " \t\n");
PiStart ==
    /\ pi.pc = "start"
    /\ pi' = [pi EXCEPT !.pc = "loop", !.i = 0,
                        !.token = strtok(pi.line).token,
                        !.rest = strtok(pi.line).rest]
    /\ UNCHANGED <<MainVars, HistVars>>

\* while (token != NULL && i < MAX_ARGS - 1) {
\*     args[i++] = token; token = strtok(NULL, " \t\n"); }
PiLoop ==
    /\ pi.pc = "loop"
    /\ pi.token # NULL /\ pi.i < ArgLimit
    /\ pi' = [pi EXCEPT !.args = StoreArg(@, pi.i, pi.token),
                        !.written = @ \cup {pi.i},
                        !.i = @ + 1,
                        !.token = strtok(pi.rest).token,
                        !.rest = strtok(pi.rest).rest]
    /\ UNCHANGED <<MainVars, HistVars>>

\* args[i] = NULL; return i;
PiReturn ==
    /\ pi.pc = "loop"
    /\ ~ (pi.token # NULL /\ pi.i < ArgLimit)
    /\ pi' = [pi EXCEPT !.args = StoreArg(@, pi.i, NULL),
                        !.written = @ \cup {pi.i},
                        !.ret = pi.i,
                        !.pc = "returned"]
    /\ UNCHANGED <<MainVars, HistVars>>

ParseNext == PiStart \/ PiLoop \/ PiReturn

ParseSpec == ParseInit /\ [][ParseNext]_vars

\* the k-th word of a line (k from 1)
NthWord(l, k) ==
    WordAt(l, CHOOSE i \in WordStarts(l) :
                 Cardinality({ m \in WordStarts(l) : m < i }) = k - 1)

(* C17: parse_input never writes outside the MAX_ARGS slots of args, and   *)
(* when it returns on a line of k words: it returns n = min(k, MAX_ARGS-1),*)
(* args[0..n-1] are the first n words of the line in order, args[n] is the *)
(* NULL sentinel, the slots behind it are untouched, and n is 0 for a line *)
(* without a word.                                                         *)
C17_TokenizerBounded ==
    /\ pi.written \subseteq 0..(MAX_ARGS - 1)
    /\ pi.pc = "returned" =>
          LET k == Cardinality(WordStarts(pi.line))
              n == IF k < MAX_ARGS - 1 THEN k ELSE MAX_ARGS - 1
          IN  /\ pi.ret = n
              /\ \A j \in 0..(n - 1) : pi.args[j] = NthWord(pi.line, j + 1)
              /\ pi.args[n] = NULL
              /\ pi.written = 0..n
              /\ \A j \in (n + 1)..(MAX_ARGS - 1) : pi.args[j] = Junk
              /\ parse_input(pi.line) = [j \in 1..n |-> pi.args[j - 1]]

\* parse_input has returned 9 on a line of more than 9 words: the sentinel
\* is in the last slot
C17_Witness ==
    /\ pi.pc = "returned"
    /\ Cardinality(WordStarts(pi.line)) > MAX_ARGS - 1
    /\ pi.ret = MAX_ARGS - 1
    /\ pi.args[MAX_ARGS - 1] = NULL
    /\ pi.args[MAX_ARGS - 2] = <<"i">>

-----------------------------------------------------------------------------
(* The history buffer as main drives it (HistorySpec): every line that is  *)
(* not empty is handed to add_to_history before it is dispatched, and the  *)
(* line "history" then runs show_history.                                  *)

HistoryLine == <<"h", "i", "s", "t", "o", "r", "y", NL>>

HistLines == { <<"x", NL>>, HistoryLine }

\* a listing that starts at slot 0
ShowStartZero(ix) == 0

\* show_history: int idx = history_index;
ShowStart(ix) == ix

\* add_to_history(cmd): the slot at history_index is freed if it is
\* occupied and the copy of cmd stored in it; then the index advances
AddedTo(h, cmd) == [h EXCEPT ![history_index] = cmd]

NextIndex == (history_index + 1) % HISTORY_COUNT

\* the do-while loop of show_history on the buffer h, from slot idx with
\* count lines printed so far: the lines it prints after out
RECURSIVE ShowLoop(_, _, _, _, _)
ShowLoop(h, ix, idx, count, out) ==
    LET printed == h[idx] # NULL
        out2 == IF printed
                THEN Append(out, [num |-> count + 1, cmd |-> h[idx]])
                ELSE out
        count2 == IF printed THEN count + 1 ELSE count
        idx2 == (idx + 1) % HISTORY_COUNT
    IN  IF idx2 # ix /\ count2 < HISTORY_COUNT
        THEN ShowLoop(h, ix, idx2, count2, out2)
        ELSE out2

\* main read a line that is not empty and is not the history command
HistAdd ==
    /\ Len(added) < MaxAdds
    /\ \E l \in HistLines \ {HistoryLine} :
          /\ history' = AddedTo(history, l)
          /\ added' = Append(added, l)
    /\ history_index' = NextIndex
    /\ UNCHANGED <<MainVars, shown, pi>>

\* main read the line "history": add_to_history(line), then show_history()
HistShow ==
    /\ Len(added) < MaxAdds
    /\ history' = AddedTo(history, HistoryLine)
    /\ added' = Append(added, HistoryLine)
    /\ history_index' = NextIndex
    /\ shown' = [at |-> Len(added'),
                 out |-> ShowLoop(history', history_index',
                                  ShowStart(history_index'), 0, <<>>)]
    /\ UNCHANGED <<MainVars, pi>>

HistoryNext == HistAdd \/ HistShow

HistorySpec == Init /\ [][HistoryNext]_vars

\* number of entries of the window after n adds
Window(n) == IF n < HISTORY_COUNT THEN n ELSE HISTORY_COUNT

(* C18: after n lines were recorded, history_index is in 0..9, the buffer  *)
(* holds exactly the most recent min(n, 10) of them (slot s holds the      *)
(* latest line recorded at a position congruent to s, so that once 10 are  *)
(* stored an add replaces exactly the oldest), and a listing made after m  *)
(* adds shows exactly the most recent min(m, 10) lines, oldest first,      *)
(* numbered from 1.                                                        *)
C18_HistoryWindow ==
    LET n == Len(added)
    IN  /\ history_index \in 0..(HISTORY_COUNT - 1)
        /\ history_index = n % HISTORY_COUNT
        /\ \A s \in 0..(HISTORY_COUNT - 1) :
              history[s] = IF s < n
                           THEN added[n - ((n - 1 - s) % HISTORY_COUNT)]
                           ELSE NULL
        /\ shown.out =
              [j \in 1..Window(shown.at) |->
                 [num |-> j, cmd |-> added[shown.at - Window(shown.at) + j]]]

\* a listing made after more than 10 adds: 10 lines, the first of them the
\* line recorded 9 adds before the last, which is not the first ever added
C18_Witness ==
    /\ shown.at > HISTORY_COUNT
    /\ shown.at = Len(added)
    /\ Len(shown.out) = HISTORY_COUNT
    /\ shown.out[1] = [num |-> 1, cmd |-> added[shown.at - 9]]
    /\ shown.out[HISTORY_COUNT] = [num |-> 10, cmd |-> HistoryLine]
    /\ added[1] # added[shown.at - 9]

-----------------------------------------------------------------------------
\* the process id the shell's current waitpid call was given (0: the shell
\* is not at a waitpid call)
WaitArg ==
    CASE pc = "ec_parent" /\ ShouldWait(background) -> pid
      [] pc = "and_wait" -> pid
      [] pc = "pipe_wait1" -> pid1
      [] pc = "pipe_wait2" -> pid2
      [] OTHER -> 0

\* the shell is suspended in waitpid
Suspended == WaitArg # 0 /\ WaitOutcomes(WaitArg) = {}

\* the children the suspended shell is waiting for
Awaited == IF WaitArg = -1 THEN Unreaped ELSE {WaitArg} \cap Unreaped

\* the children spawned for the line being executed
SpawnedNow == { trace[i].n : i \in Spawned }

\* every child of a plain, pipe or AND line is reaped when the shell is at
\* its prompt
C19_ForegroundReaped ==
    pc = "prompt" =>
        \A p \in Pids : procs[p].role # "bg" => procs[p].pc = "reaped"

(* C19: at the prompt every child spawned for a plain, pipe or AND line    *)
(* has been reaped (only background children can be running or unreaped),  *)
(* and whenever the shell is suspended it is waiting for a child of the    *)
(* line it is executing, and for no other.                                 *)
C19_SuspendedOnlyOnCurrentLine ==
    /\ C19_ForegroundReaped
    /\ Suspended => (Awaited # {} /\ Awaited \subseteq SpawnedNow)

-----------------------------------------------------------------------------
\* the line holds "&&" or "|"
HasOperator(l) == AndAndAt(l) # {} \/ CharAt(l, "|") # {}

\* the two command strings of such a line
LeftOf(l) ==
    IF AndAndAt(l) # {} THEN Before(l, First(AndAndAt(l)))
    ELSE Before(l, First(CharAt(l, "|")))

RightOf(l) ==
    IF AndAndAt(l) # {} THEN From(l, First(AndAndAt(l)) + 2)
    ELSE From(l, First(CharAt(l, "|")) + 1)

\* the words of a command string, at most MAX_ARGS - 1 of them
WordsOf(c) ==
    LET k == Cardinality(WordStarts(c))
        n == IF k < MAX_ARGS - 1 THEN k ELSE MAX_ARGS - 1
    IN  [j \in 1..n |-> NthWord(c, j)]

(* C20: the built-in names are not looked for on a line that holds "&&" or *)
(* "|".  From the step that reads such a line until the line is dealt      *)
(* with, the working directory and PWD of the shell do not change and the  *)
(* loop does not end; the shell changes no directory and prints nothing    *)
(* for it; and every child spawned for it that has called execvp did so    *)
(* with the words of its side of the line, a first word cd, pwd, exit or   *)
(* history included.                                                       *)
C20_NoBuiltinWithOperator ==
    /\ [][(HasOperator(lineRead') /\ (nread' = nread + 1 \/ ~ LineDone)) =>
            (UNCHANGED <<cwd, envPWD>> /\ pc' # "done")]_vars
    /\ []((nread > 0 /\ HasOperator(lineRead)) =>
            /\ At("chdir") = {}
            /\ At("print") = {}
            /\ \A p \in SpawnedNow :
                  (ExecInvoked(p) /\ procs[p].pc # "reaped") =>
                      procs[p].argv =
                          IF procs[p].role \in {"andL", "pipeL"}
                          THEN WordsOf(LeftOf(lineRead))
                          ELSE WordsOf(RightOf(lineRead)))

\* "exit &|history |z": both children of the pipe run, the left one as
\* exit &, the right one as history |z, and the shell waits in its loop
C20_Witness ==
    /\ pc = "pipe_wait1"
    /\ HasOperator(lineRead)
    /\ \E p, q \in Pids :
          /\ procs[p].role = "pipeL" /\ procs[p].pc = "running"
          /\ procs[p].argv = <<EXIT, <<"&">>>>
          /\ procs[q].role = "pipeR" /\ procs[q].pc = "running"
          /\ procs[q].argv = <<HISTORY, <<"|", "z">>>>

====
